---- MODULE Spec2Model ----
(***************************************************************************)
(* County Health Data API (api/index.py): the routes of the application,   *)
(* the POST /county_data handler, its validators and the two-step lookup   *)
(* against the SQLite store, with the store's lazy creation from the CSV   *)
(* sources; and the command line converter csv_to_sqlite.py that loads a   *)
(* CSV file into a table of a database.                                    *)
(*                                                                         *)
(* Spec handles one request after the other.  SpecRepeat adds the memory   *)
(* of one earlier exchange, to compare a repeated request with.            *)
(* SpecConcurrent lets one lookup create the database step by step while   *)
(* other requests are handled.  SpecMeasures sends every measure name.     *)
(* SpecConverter runs csv_to_sqlite.py on one database, run after run.     *)
(*                                                                         *)
(* Strings that the code inspects character by character (the zip) are     *)
(* sequences of Unicode code points; strings that the code only compares   *)
(* as a whole (measure names, messages, cell values) are TLA+ strings.     *)
(* For the converter, which cleans headers and cells character by          *)
(* character, headers and cells are sequences of code points too.          *)
(***************************************************************************)
EXTENDS Naturals, Sequences, FiniteSets

VARIABLES
    files,        \* the file system: database path -> database or NoFile
    csv,          \* the CSV sources in the working directory
    request,      \* the payload of the request handled last (request.json)
    response,     \* the response returned for it
    trace,        \* the store operations performed while handling it
    filesBefore,  \* the file system as it was when that request arrived
    route,        \* the method and path of that request
    earlier,      \* an exchange completed earlier, kept for comparison
    build,        \* a lookup that is creating the database, step by step
    database,     \* the database file csv_to_sqlite.py is run on
    databaseBefore, \* that database as it was when the last run started
    run,          \* the last run of csv_to_sqlite.py: arguments, file, exit
    runs          \* how many times csv_to_sqlite.py has been run

\* what the application handles, and what the command line converter does
serverVars ==
    <<files, csv, request, response, trace, filesBefore, route, earlier, build>>

converterVars == <<database, databaseBefore, run, runs>>

vars == <<serverVars, converterVars>>

-----------------------------------------------------------------------------
(* Bounds of the model *)

\* numbers appearing as JSON values are 0..MaxNumber
MaxNumber == 1
\* JSON arrays appearing as values have 0..MaxListLen elements
MaxListLen == 1

-----------------------------------------------------------------------------
(* JSON values *)

\* A JSON value as Python sees it after parsing: t is its type, s the text of
\* a string, n the value of a number or the length of a list.
JVal(t, s, n) == [t |-> t, s |-> s, n |-> n]

\* bool(v), with `empty' the empty string of the value's string type
Truthy(v, empty) ==
    CASE v.t = "absent" -> FALSE      \* dict.get gives None
      [] v.t = "null"   -> FALSE
      [] v.t = "str"    -> v.s # empty
      [] v.t = "num"    -> v.n # 0
      [] v.t = "list"   -> v.n # 0
      [] OTHER          -> TRUE

\* hash(v) succeeds: a list is unhashable
Hashable(v) == v.t # "list"

-----------------------------------------------------------------------------
(* Validators *)

VALID_MEASURES ==
    { "Violent crime rate", "Unemployment", "Children in poverty",
      "Diabetic screening", "Mammography screening", "Preventable hospital stays",
      "Uninsured", "Sexually transmitted infections", "Physical inactivity",
      "Adult obesity", "Premature Death", "Daily fine particulate matter" }

ZipLength == 5

\* The code points of the model's alphabet for which str.isdigit() is true:
\* ASCII 0-9, superscript 2, 3 and 1, Arabic-Indic digits, fullwidth digits.
IsDigitChar(c) ==
    \/ c \in 48..57
    \/ c \in {178, 179, 185}
    \/ c \in 1632..1641
    \/ c \in 65296..65305

\* str.isdigit(): every character is a digit and there is at least one
isdigit(s) == Len(s) > 0 /\ \A i \in 1..Len(s) : IsDigitChar(s[i])

\* variant: the length checked, the characters not
validate_zip_length_only(zip_code) == Len(zip_code) = ZipLength

validate_zip(zip_code) == isdigit(zip_code) /\ Len(zip_code) = ZipLength

\* strings that differ from a name of VALID_MEASURES in letter case only,
\* each with that name
CasePairs ==
    { <<"violent crime rate", "Violent crime rate">>,
      <<"unemployment", "Unemployment">>,
      <<"UNEMPLOYMENT", "Unemployment">>,
      <<"children in poverty", "Children in poverty">>,
      <<"diabetic screening", "Diabetic screening">>,
      <<"mammography screening", "Mammography screening">>,
      <<"preventable hospital stays", "Preventable hospital stays">>,
      <<"uninsured", "Uninsured">>,
      <<"sexually transmitted infections", "Sexually transmitted infections">>,
      <<"physical inactivity", "Physical inactivity">>,
      <<"adult obesity", "Adult obesity">>,
      <<"Adult Obesity", "Adult obesity">>,
      <<"premature death", "Premature Death">>,
      <<"Premature death", "Premature Death">>,
      <<"daily fine particulate matter", "Daily fine particulate matter">> }

\* variant: the names compared without regard to letter case
validate_measure_casefold(measure) ==
    \/ measure \in VALID_MEASURES
    \/ \E pair \in CasePairs : pair[1] = measure /\ pair[2] \in VALID_MEASURES

validate_measure(measure) == measure \in VALID_MEASURES

-----------------------------------------------------------------------------
(* The store: SQLite database files and the CSV sources *)

NoTable == [exists |-> FALSE, rows |-> <<>>]

Table(rows) == [exists |-> TRUE, rows |-> rows]

NoFile == [exists |-> FALSE, zip_county |-> NoTable, county_health_rankings |-> NoTable]

Database(zips, health) ==
    [exists |-> TRUE, zip_county |-> zips, county_health_rankings |-> health]

\* possible_paths, in the order they are tried
possible_paths ==
    << "/tmp/data.db", "api/data.db", "data.db", "cwd/data.db",
       "/var/task/data.db", "./data.db" >>

RECURSIVE first_existing(_, _)
first_existing(fs, i) ==
    IF i > Len(possible_paths) THEN possible_paths[1]
    ELSE IF fs[possible_paths[i]].exists THEN possible_paths[i]
    ELSE first_existing(fs, i + 1)

\* variant: the temporary directory, whatever exists elsewhere
get_database_path_tmp_only(fs) == possible_paths[1]

\* the first path that exists, else the first path
get_database_path(fs) == first_existing(fs, 1)

\* str.strip(chars) on a sequence of code points
RECURSIVE lstrip(_, _)
lstrip(s, chars) ==
    IF s # <<>> /\ Head(s) \in chars THEN lstrip(Tail(s), chars) ELSE s

RECURSIVE rstrip(_, _)
rstrip(s, chars) ==
    IF s # <<>> /\ s[Len(s)] \in chars
    THEN rstrip(SubSeq(s, 1, Len(s) - 1), chars) ELSE s

strip(s, chars) == rstrip(lstrip(s, chars), chars)

\* double quote, single quote, space
QuoteChars == {34, 39, 32}

\* space, tab, line feed, carriage return
WhitespaceChars == {32, 9, 10, 13}

\* A zip_county row keeps the two columns the lookup reads; the cells of a
\* county_health_rankings row are opaque strings without surrounding quotes
\* or blanks, which cell cleaning leaves as they are.
is_blank_row(table_name, row) ==
    IF table_name = "zip_county"
    THEN strip(row.zip, WhitespaceChars) = <<>> /\ row.county_code = ""
    ELSE \A c \in DOMAIN row : row[c] = ""

clean_row(table_name, row) ==
    IF table_name = "zip_county"
    THEN [row EXCEPT !.zip = strip(@, QuoteChars)]
    ELSE row

RECURSIVE insert_rows(_, _, _)
insert_rows(table_name, data_rows, i) ==
    IF i > Len(data_rows) THEN <<>>
    ELSE IF is_blank_row(table_name, data_rows[i])
         THEN insert_rows(table_name, data_rows, i + 1)
         ELSE <<clean_row(table_name, data_rows[i])>>
              \o insert_rows(table_name, data_rows, i + 1)

\* csv_to_sqlite.py <database> <csv>: the exit status and the database after it
csv_to_sqlite(db, table_name, csv_file) ==
    IF ~csv_file.exists THEN [returncode |-> 1, db |-> db]
    ELSE IF csv_file.empty THEN [returncode |-> 1, db |-> db]
    ELSE [returncode |-> 0,
          db |-> [[db EXCEPT !.exists = TRUE]
                     EXCEPT ![table_name] = Table(insert_rows(table_name, csv_file.rows, 1))]]

\* create_database_from_csv(): whether it succeeded and the file system after it
create_database_from_csv(fs, sources) ==
    LET db_path == "/tmp/data.db"
        first   == csv_to_sqlite(fs[db_path], "zip_county", sources.zip_county)
        fs1     == [fs EXCEPT ![db_path] = first.db]
        second  == csv_to_sqlite(fs1[db_path], "county_health_rankings",
                                 sources.county_health_rankings)
        fs2     == [fs1 EXCEPT ![db_path] = second.db]
    IN  IF ~sources.script THEN [ok |-> FALSE, files |-> fs]
        ELSE IF ~sources.zip_county.exists THEN [ok |-> FALSE, files |-> fs]
        ELSE IF ~sources.county_health_rankings.exists THEN [ok |-> FALSE, files |-> fs]
        ELSE IF first.returncode # 0 THEN [ok |-> FALSE, files |-> fs1]
        ELSE IF second.returncode # 0 THEN [ok |-> FALSE, files |-> fs2]
        ELSE [ok |-> fs2[db_path].exists, files |-> fs2]

-----------------------------------------------------------------------------
(* The two-step lookup *)

\* the columns of county_health_rankings and the keys of a result record
HealthColumns ==
    { "State", "County", "State_code", "County_code", "Year_span",
      "Measure_name", "Measure_id", "Numerator", "Denominator", "Raw_value",
      "Confidence_Interval_Lower_Bound", "Confidence_Interval_Upper_Bound",
      "Data_Release_Year", "fipscode" }

\* variant: the last matching row instead of the first
RECURSIVE zip_query_last(_, _, _)
zip_query_last(rows, zip_code, i) ==
    IF i > Len(rows) THEN <<>>
    ELSE LET later == zip_query_last(rows, zip_code, i + 1)
         IN  IF later # <<>> THEN later
             ELSE IF rows[i].zip = zip_code THEN <<rows[i]>>
             ELSE <<>>

\* SELECT county_code FROM zip_county WHERE "zip" = ? LIMIT 1: SQLite
\* returns the matching row of the lowest rowid, the first in storage order
RECURSIVE zip_query(_, _, _)
zip_query(rows, zip_code, i) ==
    IF i > Len(rows) THEN <<>>
    ELSE IF rows[i].zip = zip_code THEN <<rows[i]>>
    ELSE zip_query(rows, zip_code, i + 1)

\* variant: the record query without its Measure_name condition
RECURSIVE health_query_any_measure(_, _, _, _)
health_query_any_measure(rows, fips_code, measure_name, i) ==
    IF i > Len(rows) THEN <<>>
    ELSE IF rows[i].fipscode = fips_code
         THEN <<rows[i]>> \o health_query_any_measure(rows, fips_code, measure_name, i + 1)
         ELSE health_query_any_measure(rows, fips_code, measure_name, i + 1)

\* SELECT ... FROM county_health_rankings WHERE fipscode = ? AND Measure_name = ?
RECURSIVE health_query(_, _, _, _)
health_query(rows, fips_code, measure_name, i) ==
    IF i > Len(rows) THEN <<>>
    ELSE IF rows[i].fipscode = fips_code /\ rows[i].Measure_name = measure_name
         THEN <<rows[i]>> \o health_query(rows, fips_code, measure_name, i + 1)
         ELSE health_query(rows, fips_code, measure_name, i + 1)

\* variant: county_code filled from the fipscode column
row_to_dict_swapped(row) ==
    [ state |-> row.State, county |-> row.County, state_code |-> row.State_code,
      county_code |-> row.fipscode, year_span |-> row.Year_span,
      measure_name |-> row.Measure_name, measure_id |-> row.Measure_id,
      numerator |-> row.Numerator, denominator |-> row.Denominator,
      raw_value |-> row.Raw_value,
      confidence_interval_lower_bound |-> row.Confidence_Interval_Lower_Bound,
      confidence_interval_upper_bound |-> row.Confidence_Interval_Upper_Bound,
      data_release_year |-> row.Data_Release_Year, fipscode |-> row.fipscode ]

\* the dictionary built from one result row
row_to_dict(row) ==
    [ state |-> row.State, county |-> row.County, state_code |-> row.State_code,
      county_code |-> row.County_code, year_span |-> row.Year_span,
      measure_name |-> row.Measure_name, measure_id |-> row.Measure_id,
      numerator |-> row.Numerator, denominator |-> row.Denominator,
      raw_value |-> row.Raw_value,
      confidence_interval_lower_bound |-> row.Confidence_Interval_Lower_Bound,
      confidence_interval_upper_bound |-> row.Confidence_Interval_Upper_Bound,
      data_release_year |-> row.Data_Release_Year, fipscode |-> row.fipscode ]

\* variant: a query that raises is attempted a second time
run_queries_retry(db, zip_code, measure_name) ==
    IF ~db.zip_county.exists
    THEN [raised |-> "sqlite3.Error", data |-> <<>>,
          log |-> <<"zip_query", "zip_query">>]
    ELSE LET zip_result == zip_query(db.zip_county.rows, zip_code, 1)
         IN  IF zip_result = <<>>
             THEN [raised |-> "", data |-> <<>>, log |-> <<"zip_query">>]
             ELSE IF ~db.county_health_rankings.exists
             THEN [raised |-> "sqlite3.Error", data |-> <<>>,
                   log |-> <<"zip_query", "health_query", "health_query">>]
             ELSE LET fips_code == zip_result[1].county_code
                      results == health_query(db.county_health_rankings.rows,
                                              fips_code, measure_name, 1)
                  IN  [raised |-> "",
                       data |-> [k \in 1..Len(results) |-> row_to_dict(results[k])],
                       log |-> <<"zip_query", "health_query">>]

\* the queries on an open connection: what is raised, the data returned and
\* the operations performed
run_queries(db, zip_code, measure_name) ==
    IF ~db.zip_county.exists
    THEN [raised |-> "sqlite3.Error", data |-> <<>>, log |-> <<"zip_query">>]
    ELSE LET zip_result == zip_query(db.zip_county.rows, zip_code, 1)
         IN  IF zip_result = <<>>
             THEN [raised |-> "", data |-> <<>>, log |-> <<"zip_query">>]
             ELSE IF ~db.county_health_rankings.exists
             THEN [raised |-> "sqlite3.Error", data |-> <<>>,
                   log |-> <<"zip_query", "health_query">>]
             ELSE LET fips_code == zip_result[1].county_code
                      results == health_query(db.county_health_rankings.rows,
                                              fips_code, measure_name, 1)
                  IN  [raised |-> "",
                       data |-> [k \in 1..Len(results) |-> row_to_dict(results[k])],
                       log |-> <<"zip_query", "health_query">>]

\* variant: the connection closed before the return only, without `finally'
query_county_health_data_no_finally(zip_code, measure_name, fs, sources) ==
    LET db_path == get_database_path(fs)
        absent  == ~fs[db_path].exists
        made    == IF absent THEN create_database_from_csv(fs, sources)
                   ELSE [ok |-> TRUE, files |-> fs]
        log0    == <<"get_database_path", "exists">>
                   \o (IF absent THEN <<"create_database_from_csv">> ELSE <<>>)
    IN  IF ~made.ok
        THEN [raised |-> "FileNotFoundError", data |-> <<>>, log |-> log0,
              files |-> made.files]
        ELSE LET q == run_queries(made.files[db_path], zip_code, measure_name)
             IN  [raised |-> q.raised, data |-> q.data,
                  log |-> log0 \o <<"connect">> \o q.log
                          \o (IF q.raised = "" /\ q.data # <<>>
                              THEN <<"close">> ELSE <<>>),
                  files |-> made.files]

\* query_county_health_data(zip_code, measure_name), with the file system it
\* leaves behind
query_county_health_data(zip_code, measure_name, fs, sources) ==
    LET db_path == get_database_path(fs)
        absent  == ~fs[db_path].exists
        made    == IF absent THEN create_database_from_csv(fs, sources)
                   ELSE [ok |-> TRUE, files |-> fs]
        log0    == <<"get_database_path", "exists">>
                   \o (IF absent THEN <<"create_database_from_csv">> ELSE <<>>)
    IN  IF ~made.ok
        THEN [raised |-> "FileNotFoundError", data |-> <<>>, log |-> log0,
              files |-> made.files]
        ELSE LET q == run_queries(made.files[db_path], zip_code, measure_name)
             IN  [raised |-> q.raised, data |-> q.data,
                  log |-> log0 \o <<"connect">> \o q.log \o <<"close">>,
                  files |-> made.files]

-----------------------------------------------------------------------------
(* The handler of POST /county_data *)

\* variant: an error body that carries the message only
ErrorResponse_message_only(message, code) ==
    [code |-> code, kind |-> "object", body |-> [error |-> message]]

\* jsonify({"error": message, "status": code}), code
ErrorResponse(message, code) ==
    [code |-> code, kind |-> "object", body |-> [error |-> message, status |-> code]]

DataResponse(data) == [code |-> 200, kind |-> "array", body |-> data]

Teapot          == ErrorResponse("I'm a teapot", 418)
MalformedRequest == ErrorResponse("Request must contain JSON data", 400)
InvalidZipFormat == ErrorResponse("Invalid zip code format. Must be 5 digits.", 404)
UnknownMeasure  == ErrorResponse("Invalid measure_name", 404)
NotFound        == ErrorResponse("No data found for the given zip code and measure", 404)
DatabaseNotFound == ErrorResponse("Database not found", 500)
DatabaseError   == ErrorResponse("Database error", 500)
InternalError   == ErrorResponse("Internal server error", 500)

\* request.json as the handler sees it.  t = "raises": Flask raises (a body
\* that is not JSON, or no JSON content type); "null": None; otherwise the
\* parsed value.  Of an object (a dict) the three keys the handler reads are
\* kept, each a JSON value or absent.
Absent(empty) == JVal("absent", empty, 0)

Scalar(t, s, n) ==
    [t |-> t, s |-> s, n |-> n,
     coffee |-> Absent(""), zip |-> Absent(<<>>), measure_name |-> Absent("")]

Object(coffee, zip, measure_name) ==
    [t |-> "obj", s |-> "", n |-> 0,
     coffee |-> coffee, zip |-> zip, measure_name |-> measure_name]

\* bool(request.json): a dict is true when it has a key
PayloadTruthy(p) ==
    CASE p.t = "null" -> FALSE
      [] p.t = "num"  -> p.n # 0
      [] p.t = "str"  -> p.s # ""
      [] p.t = "list" -> p.n # 0
      [] p.t = "obj"  -> \/ p.coffee.t # "absent"
                         \/ p.zip.t # "absent"
                         \/ p.measure_name.t # "absent"
      [] OTHER        -> FALSE

\* variant: the teapot honoured only when zip and measure_name are given
teapot_check_needs_fields(p) ==
    IF p.t = "raises" THEN "raise"
    ELSE IF ~PayloadTruthy(p) THEN "no"
    ELSE IF p.t = "obj"
         THEN IF p.zip.t # "absent" /\ p.measure_name.t # "absent"
                 /\ p.coffee.t = "str" /\ p.coffee.s = "teapot"
              THEN "teapot" ELSE "no"
    ELSE IF p.t = "num" THEN "raise"
    ELSE IF p.t = "str" /\ p.s = "coffee" THEN "raise"
    ELSE "no"

\* request.json and 'coffee' in request.json and request.json['coffee'] == 'teapot'
\* gives "teapot", "no", or "raise" when evaluating it raises: request.json
\* itself, `in' on a number (TypeError), indexing a string by a string
\* (TypeError).  The lists of the model hold no element equal to "coffee".
teapot_check(p) ==
    IF p.t = "raises" THEN "raise"
    ELSE IF ~PayloadTruthy(p) THEN "no"
    ELSE IF p.t = "obj"
         THEN IF p.coffee.t = "str" /\ p.coffee.s = "teapot" THEN "teapot" ELSE "no"
    ELSE IF p.t = "num" THEN "raise"
    ELSE IF p.t = "str" /\ p.s = "coffee" THEN "raise"
    ELSE "no"

Pass == [code |-> 0, kind |-> "none", body |-> <<>>]

\* variant: measure_name checked before zip
missing_parameter_measure_first(p) ==
    IF ~Truthy(p.measure_name, "") THEN "measure_name"
    ELSE IF ~Truthy(p.zip, <<>>) THEN "zip"
    ELSE ""

\* lines 297-302: the required parameter reported missing, "" when neither is
missing_parameter(p) ==
    IF ~Truthy(p.zip, <<>>) THEN "zip"
    ELSE IF ~Truthy(p.measure_name, "") THEN "measure_name"
    ELSE ""

\* lines 284-310: the response of the first failing check, or Pass
validation(p) ==
    LET tea == teapot_check(p)
    IN  IF tea = "raise" THEN InternalError
        ELSE IF tea = "teapot" THEN Teapot
        ELSE IF ~PayloadTruthy(p) THEN MalformedRequest
        ELSE IF p.t # "obj" THEN InternalError              \* .get: AttributeError
        ELSE IF missing_parameter(p) # ""
             THEN ErrorResponse("Missing required parameter: " \o missing_parameter(p), 400)
        ELSE IF p.zip.t # "str" THEN InternalError           \* .isdigit: AttributeError
        ELSE IF ~validate_zip(p.zip.s) THEN InvalidZipFormat
        ELSE IF ~Hashable(p.measure_name) THEN InternalError \* in: TypeError
        ELSE IF ~(p.measure_name.t = "str" /\ validate_measure(p.measure_name.s))
             THEN UnknownMeasure
        ELSE Pass

\* str(e) of the exception the lookup raised, which the code prints: the
\* FileNotFoundError message of line 187 (db_path being the first of
\* possible_paths when no file exists) or SQLite's message about the table
\* the failing query reads
exception_text(q) ==
    IF q.raised = "FileNotFoundError"
    THEN "Database file not found and could not create: /tmp/data.db"
    ELSE IF q.raised = "sqlite3.Error"
    THEN IF "health_query" \in {q.log[i] : i \in 1..Len(q.log)}
         THEN "no such table: county_health_rankings"
         ELSE "no such table: zip_county"
    ELSE ""

\* variant: the text of the exception sent to the caller
respond_with_exception_text(q) ==
    IF q.raised # "" THEN ErrorResponse(exception_text(q), 500)
    ELSE IF q.data = <<>> THEN NotFound
    ELSE DataResponse(q.data)

\* variant: an empty result returned as 200 []
respond_empty_ok(q) ==
    IF q.raised = "FileNotFoundError" THEN DatabaseNotFound
    ELSE IF q.raised = "sqlite3.Error" THEN DatabaseError
    ELSE IF q.raised # "" THEN InternalError
    ELSE DataResponse(q.data)

\* variant: a database that cannot be found treated as an empty result
respond_absent_as_empty(q) ==
    IF q.raised = "FileNotFoundError" THEN NotFound
    ELSE IF q.raised = "sqlite3.Error" THEN DatabaseError
    ELSE IF q.raised # "" THEN InternalError
    ELSE IF q.data = <<>> THEN NotFound
    ELSE DataResponse(q.data)

\* lines 312-328: the response made from the result of the lookup
respond(q) ==
    IF q.raised = "FileNotFoundError" THEN DatabaseNotFound
    ELSE IF q.raised = "sqlite3.Error" THEN DatabaseError
    ELSE IF q.raised # "" THEN InternalError
    ELSE IF q.data = <<>> THEN NotFound
    ELSE DataResponse(q.data)

Outcome(resp, log, fs) == [response |-> resp, trace |-> log, files |-> fs]

\* variant: the lookup run before the zip format and the measure are judged
county_data_query_first(p, fs, sources) ==
    LET v == validation(p)
        q == query_county_health_data(p.zip.s, p.measure_name.s, fs, sources)
    IN  IF v.kind # "none" /\ v.code \in {418, 400, 500} THEN Outcome(v, <<>>, fs)
        ELSE IF v.kind # "none" THEN Outcome(v, q.log, q.files)
        ELSE Outcome(respond(q), q.log, q.files)

\* county_data(): the response, the store operations and the file system after
county_data(p, fs, sources) ==
    LET v == validation(p)
        q == query_county_health_data(p.zip.s, p.measure_name.s, fs, sources)
    IN  IF v.kind # "none" THEN Outcome(v, <<>>, fs)
        ELSE Outcome(respond(q), q.log, q.files)

-----------------------------------------------------------------------------
(* The routes of the application and its error handlers *)

JsonResponse(body, code) == [code |-> code, kind |-> "object", body |-> body]

\* root(): GET /
root ==
    JsonResponse([ message |-> "County Health Data API is running",
                   endpoints |-> [post_county_data |->
                                    "Get health data for ZIP code and measure"],
                   status |-> "ok" ], 200)

\* @app.errorhandler(404)
not_found == JsonResponse([error |-> "Endpoint not found", status |-> 404], 404)

\* variant: the 405 of the framework passed on as it is
method_not_allowed_405 ==
    JsonResponse([error |-> "Method not allowed", status |-> 405], 405)

\* @app.errorhandler(405)
method_not_allowed ==
    JsonResponse([error |-> "Method not allowed", status |-> 404], 404)

\* the answer Flask gives to OPTIONS on a path that has a rule
OptionsResponse == [code |-> 200, kind |-> "empty", body |-> <<>>]

\* a path under /static/, for which Flask(__name__) registers the rule
\* /static/<path:filename>; the application has no static folder
StaticPath == "/static/style.css"

\* the rules of the application: path -> methods of the view function.  Two
\* are registered by @app.route, the static one by Flask(__name__).
url_map == [path \in {"/", "/county_data", StaticPath} |->
               IF path = "/county_data" THEN {"POST"} ELSE {"GET"}]

\* variant: no rule for the root path
dispatch_request_single_endpoint(method, path) ==
    IF path \notin {"/county_data", StaticPath} THEN "not_found"
    ELSE IF method = "OPTIONS" THEN "options"
    ELSE IF method \notin url_map[path] THEN "method_not_allowed"
    ELSE IF path = StaticPath THEN "static"
    ELSE "county_data"

\* variant: a wrong method handled as an unknown path
dispatch_request_not_found_only(method, path) ==
    IF path \notin DOMAIN url_map THEN "not_found"
    ELSE IF method = "OPTIONS" THEN "options"
    ELSE IF method \notin url_map[path] THEN "not_found"
    ELSE IF path = "/" THEN "root"
    ELSE IF path = StaticPath THEN "static"
    ELSE "county_data"

\* What Flask calls for a request: the view function of the rule matching
\* path and method, else the handler of the error it raises (NotFound when
\* no rule has the path, MethodNotAllowed when rules have it for other
\* methods only), OPTIONS being answered by Flask itself.
dispatch_request(method, path) ==
    IF path \notin DOMAIN url_map THEN "not_found"
    ELSE IF method = "OPTIONS" THEN "options"
    ELSE IF method \notin url_map[path] THEN "method_not_allowed"
    ELSE IF path = "/" THEN "root"
    ELSE IF path = StaticPath THEN "static"
    ELSE "county_data"

\* the response of the functions that do not read the request
view_response(endpoint) ==
    CASE endpoint = "root"               -> root
      [] endpoint = "not_found"          -> not_found
      [] endpoint = "static"             -> not_found  \* no such file: NotFound
      [] endpoint = "method_not_allowed" -> method_not_allowed
      [] endpoint = "options"            -> OptionsResponse

-----------------------------------------------------------------------------
(* The reference data and the requests of the model *)

Zip02138     == <<48, 50, 49, 51, 56>>              \* "02138"
Zip00000     == <<48, 48, 48, 48, 48>>              \* "00000"
Zip1234      == <<49, 50, 51, 52>>                  \* "1234"
Zip123456    == <<49, 50, 51, 52, 53, 54>>          \* "123456"
ZipInjection == <<49, 39, 59, 45, 45>>              \* "1';--"
ZipFullwidth == <<65297, 65298, 65299, 65300, 65301>> \* fullwidth "12345"
ZipQuoted    == <<39>> \o Zip02138 \o <<39>>        \* "'02138'"

ZipRow(zip, county_code) == [zip |-> zip, county_code |-> county_code]

HealthRow(fips, county_code, measure, year_span) ==
    [ State |-> "MA", County |-> "County " \o fips, State_code |-> "25",
      County_code |-> county_code, Year_span |-> year_span,
      Measure_name |-> measure, Measure_id |-> "11", Numerator |-> "60",
      Denominator |-> "263", Raw_value |-> "0.23",
      Confidence_Interval_Lower_Bound |-> "0.22",
      Confidence_Interval_Upper_Bound |-> "0.24",
      Data_Release_Year |-> "2012", fipscode |-> fips ]

BlankHealthRow == [c \in HealthColumns |-> ""]

\* 02138 is listed twice, for two counties
ZipRowsA ==
    << ZipRow(Zip02138, "25017"), ZipRow(Zip02138, "25025") >>

ZipRowsB == << ZipRow(Zip02138, "25025"), ZipRow(Zip02138, "25017") >>

HealthRowsA ==
    << HealthRow("25017", "017", "Adult obesity", "2009"),
       HealthRow("25025", "025", "Adult obesity", "2009"),
       HealthRow("25017", "017", "Adult obesity", "2010"),
       HealthRow("25025", "025", "Unemployment", "2010"),
       HealthRow("25017", "017", "adult obesity", "2010"),
       HealthRow("25017", "017", "Poor physical health days", "2010") >>

\* the rows of the CSV sources, as csv.reader parses them
ZipCsvRows ==
    << ZipRow(ZipQuoted, "25017"), ZipRow(<<32>>, ""), ZipRow(Zip02138, "25025") >>

HealthCsvRows == <<HealthRowsA[1], BlankHealthRow, HealthRowsA[4]>>

CsvFile(rows) == [exists |-> TRUE, empty |-> FALSE, rows |-> rows]
EmptyCsvFile  == [exists |-> TRUE, empty |-> TRUE, rows |-> <<>>]
NoCsvFile     == [exists |-> FALSE, empty |-> FALSE, rows |-> <<>>]

Sources(script, zips, health) ==
    [script |-> script, zip_county |-> zips, county_health_rankings |-> health]

\* the databases a deployment may hold at a path
Databases ==
    { Database(Table(ZipRowsA), Table(HealthRowsA)),
      Database(Table(ZipRowsB), Table(HealthRowsA)),
      Database(Table(ZipRowsA), NoTable),
      Database(NoTable, Table(HealthRowsA)),
      Database(Table(<<>>), Table(<<>>)) }

SourceSets ==
    { Sources(TRUE, CsvFile(ZipCsvRows), CsvFile(HealthCsvRows)),
      Sources(TRUE, CsvFile(ZipCsvRows), EmptyCsvFile),
      Sources(FALSE, NoCsvFile, NoCsvFile) }

Numbers == 0..MaxNumber
ListLengths == 0..MaxListLen

NonStrings(empty) ==
    {Absent(empty), JVal("null", empty, 0)}
    \cup {JVal("num", empty, n) : n \in Numbers}
    \cup {JVal("list", empty, n) : n \in ListLengths}

ZipValues ==
    NonStrings(<<>>)
    \cup {JVal("str", z, 0) : z \in {<<>>, Zip02138, Zip00000, Zip1234, Zip123456,
                                     ZipInjection, ZipFullwidth}}

MeasureValues ==
    NonStrings("")
    \cup {JVal("str", m, 0) : m \in {"", "Adult obesity", "Unemployment",
                                     "adult obesity", "Adult obesity' OR '1'='1"}}

CoffeeValues ==
    {Absent(""), JVal("str", "teapot", 0), JVal("str", "decaf", 0)}

Payloads ==
    {Scalar("raises", "", 0), Scalar("null", "", 0)}
    \cup {Scalar("num", "", n) : n \in Numbers}
    \cup {Scalar("list", "", n) : n \in ListLengths}
    \cup {Scalar("str", t, 0) : t \in {"", "coffee"}}
    \cup {Object(c, z, m) : c \in CoffeeValues, z \in ZipValues, m \in MeasureValues}

\* requests as the tests make them: a five-digit zip and a recognized measure
NormalRequests ==
    { Object(Absent(""), JVal("str", z, 0), JVal("str", m, 0)) :
        z \in {Zip02138, Zip00000}, m \in {"Adult obesity", "Unemployment"} }

\* the methods and paths requests are made with
Methods == {"GET", "POST", "PUT", "DELETE", "OPTIONS"}

Paths == {"/", "/county_data", "/other", StaticPath}

\* the bodies sent to the routes that do not read them
UnreadPayloads ==
    { Scalar("null", "", 0),
      Object(JVal("str", "teapot", 0), Absent(<<>>), Absent("")),
      Object(Absent(""), JVal("str", Zip02138, 0), JVal("str", "Adult obesity", 0)) }

-----------------------------------------------------------------------------
(* csv_to_sqlite.py, the command line converter                            *)
(*                                                                         *)
(* The script is a Python 3.12 program (line 123 nests quotes of one kind  *)
(* in an f-string) and is modelled as run by such an interpreter.          *)

\* a table of a database: its columns in order, each with its declared
\* type, and its rows in rowid order, each a sequence of cells
SqlTable(columns, rows) == [exists |-> TRUE, columns |-> columns, rows |-> rows]

NoSqlTable == [exists |-> FALSE, columns |-> <<>>, rows |-> <<>>]

\* a path: the directory, the base name without its suffix, the suffix
Path(dirname, stem, suffix) == [dirname |-> dirname, stem |-> stem, suffix |-> suffix]

\* str.lower() of a suffix
lower(suffix) == IF suffix = ".CSV" THEN ".csv" ELSE suffix

\* os.path.basename(csv_file), without its last four characters when it
\* ends in .csv in either case
get_table_name(csv_file) ==
    IF lower(csv_file.suffix) = ".csv" THEN csv_file.stem
    ELSE csv_file.stem \o csv_file.suffix

UsageMessage == "Usage: python3 csv_to_sqlite.py <database_name> <csv_file>"
NotFoundMessage == "Error: CSV file not found"

\* variant: the CSV file looked for only when the table is created
validate_args_count_only(argv, csv_file) ==
    IF Len(argv) # 3 THEN [ok |-> FALSE, stderr |-> UsageMessage]
    ELSE [ok |-> TRUE, stderr |-> ""]

\* validate_args(): sys.argv is the script and its arguments; csv_file is
\* the file at the path sys.argv[2] names
validate_args(argv, csv_file) ==
    IF Len(argv) # 3 THEN [ok |-> FALSE, stderr |-> UsageMessage]
    ELSE IF ~csv_file.exists THEN [ok |-> FALSE, stderr |-> NotFoundMessage]
    ELSE [ok |-> TRUE, stderr |-> ""]

DoubleQuote == 34
SingleQuote == 39
ByteOrderMark == 65279

\* f'column_{i}', i a single digit
column_(i) == <<99, 111, 108, 117, 109, 110, 95, 48 + i>>

\* lines 91-97: a header without surrounding blanks and quotes, without a
\* leading byte order mark, named after its index when nothing is left
clean_header(header, i) ==
    LET stripped == strip(strip(strip(header, WhitespaceChars), {DoubleQuote}),
                          {SingleQuote})
        no_bom   == IF stripped # <<>> /\ Head(stripped) = ByteOrderMark
                    THEN Tail(stripped) ELSE stripped
    IN  IF no_bom = <<>> THEN column_(i) ELSE no_bom

clean_headers(headers) ==
    [k \in 1..Len(headers) |-> clean_header(headers[k], k - 1)]

\* lines 110-117: every column is declared TEXT
columns_def(headers) ==
    [k \in 1..Len(headers) |-> [name |-> headers[k], type |-> "TEXT"]]

\* CREATE TABLE succeeds: there is a column and no name is given twice
\* (the names of the model do not differ in letter case only)
create_table_ok(headers) ==
    /\ Len(headers) > 0
    /\ \A j, k \in 1..Len(headers) : headers[j] = headers[k] => j = k

Header_County_code ==
    <<67, 111, 117, 110, 116, 121, 95, 99, 111, 100, 101>>

Header_Measure_name ==
    <<77, 101, 97, 115, 117, 114, 101, 95, 110, 97, 109, 101>>

\* lines 162-167: CREATE INDEX succeeds.  The indexes of
\* county_health_rankings need the columns County_code and Measure_name;
\* the index of zip_county is made whether or not there is a zip column
\* ("zip" is then read as a string literal).
create_indexes_ok(table_name, headers) ==
    table_name = "county_health_rankings"
    => /\ \E k \in 1..Len(headers) : headers[k] = Header_County_code
       /\ \E k \in 1..Len(headers) : headers[k] = Header_Measure_name

\* variant: a row is skipped only when it has no field at all
skip_row_no_field(row_data) == row_data = <<>>

\* lines 135-137: not any(field.strip() for field in row_data)
skip_row(row_data) ==
    \A k \in 1..Len(row_data) : strip(row_data[k], WhitespaceChars) = <<>>

\* line 140: every cell without the quotes and spaces around it
clean_cells(row_data) ==
    [k \in 1..Len(row_data) |-> strip(row_data[k], QuoteChars)]

\* variant: a long row is kept whole
fit_row_no_truncate(row, n) ==
    IF Len(row) < n THEN row \o [k \in 1..(n - Len(row)) |-> <<>>]
    ELSE row

\* lines 143-148: padded with empty strings or truncated to n values
fit_row(row, n) ==
    IF Len(row) < n THEN row \o [k \in 1..(n - Len(row)) |-> <<>>]
    ELSE IF Len(row) > n THEN SubSeq(row, 1, n)
    ELSE row

\* lines 150-152: the first cell of a zip_county row without quotes around it
clean_zip(table_name, row) ==
    IF table_name = "zip_county" /\ Len(row) > 0
    THEN [row EXCEPT ![1] = strip(@, {DoubleQuote, SingleQuote})]
    ELSE row

\* the values bound to one INSERT
row_values(table_name, row_data, n) ==
    clean_zip(table_name, fit_row(clean_cells(row_data), n))

\* lines 133-160: the rows inserted from data_rows[i..], in order
RECURSIVE inserted_rows(_, _, _, _)
inserted_rows(table_name, data_rows, n, i) ==
    IF i > Len(data_rows) THEN <<>>
    ELSE IF skip_row(data_rows[i])
         THEN inserted_rows(table_name, data_rows, n, i + 1)
         ELSE <<row_values(table_name, data_rows[i], n)>>
              \o inserted_rows(table_name, data_rows, n, i + 1)

\* the outcome of a run: the exit status, what was written on stderr and
\* the database left behind
Exit(returncode, stderr, db) ==
    [returncode |-> returncode, stderr |-> stderr, db |-> db]

\* variant: the new rows appended to the table already there
create_table_from_csv_append(db, csv_path, csv_file) ==
    LET table_name == get_table_name(csv_path)
        headers    == clean_headers(csv_file.lines[1])
        data_rows  == Tail(csv_file.lines)
        connected  == [db EXCEPT !.exists = TRUE]
        old        == db.tables[table_name].rows
        filled     == [connected EXCEPT !.tables[table_name] =
                          SqlTable(columns_def(headers),
                                   old \o inserted_rows(table_name, data_rows,
                                                        Len(headers), 1))]
    IN  IF csv_file.lines = <<>>
        THEN Exit(1, "Unexpected error: CSV file is empty", db)
        ELSE IF ~create_table_ok(headers)
        THEN Exit(1, "Database error", connected)
        ELSE Exit(0, "", filled)

\* variant: every table of the database dropped before the new one is made
create_table_from_csv_drop_all(db, csv_path, csv_file) ==
    LET table_name == get_table_name(csv_path)
        headers    == clean_headers(csv_file.lines[1])
        data_rows  == Tail(csv_file.lines)
        dropped    == [exists |-> TRUE,
                       tables |-> [t \in DOMAIN db.tables |-> NoSqlTable]]
        created    == [dropped EXCEPT !.tables[table_name] =
                          SqlTable(columns_def(headers), <<>>)]
        filled     == [dropped EXCEPT !.tables[table_name] =
                          SqlTable(columns_def(headers),
                                   inserted_rows(table_name, data_rows,
                                                 Len(headers), 1))]
    IN  IF csv_file.lines = <<>>
        THEN Exit(1, "Unexpected error: CSV file is empty", db)
        ELSE IF ~create_table_ok(headers)
        THEN Exit(1, "Database error", dropped)
        ELSE IF ~create_indexes_ok(table_name, headers)
        THEN Exit(1, "Database error", created)
        ELSE Exit(0, "", filled)

\* create_table_from_csv(database_name, csv_file).  The first line of the
\* file holds the headers; a file without a line raises ValueError before
\* the database is opened.  sqlite3.connect creates the database file.
\* DROP TABLE and CREATE TABLE run outside a transaction and stay when a
\* later statement fails; the inserts and the indexes are committed at line
\* 169 or rolled back by the except clause.
create_table_from_csv(db, csv_path, csv_file) ==
    LET table_name == get_table_name(csv_path)
        headers    == clean_headers(csv_file.lines[1])
        data_rows  == Tail(csv_file.lines)
        connected  == [db EXCEPT !.exists = TRUE]
        dropped    == [connected EXCEPT !.tables[table_name] = NoSqlTable]
        created    == [dropped EXCEPT !.tables[table_name] =
                          SqlTable(columns_def(headers), <<>>)]
        filled     == [dropped EXCEPT !.tables[table_name] =
                          SqlTable(columns_def(headers),
                                   inserted_rows(table_name, data_rows,
                                                 Len(headers), 1))]
    IN  IF csv_file.lines = <<>>
        THEN Exit(1, "Unexpected error: CSV file is empty", db)
        ELSE IF ~create_table_ok(headers)
        THEN Exit(1, "Database error", dropped)
        ELSE IF ~create_indexes_ok(table_name, headers)
        THEN Exit(1, "Database error", created)
        ELSE Exit(0, "", filled)

\* main(): argv[2] is the database csv_to_sqlite.py is run on, db its
\* content, csv_file the file at argv[3]
main(argv, csv_file, db) ==
    LET args == validate_args(argv, csv_file)
    IN  IF ~args.ok THEN Exit(1, args.stderr, db)
        ELSE create_table_from_csv(db, argv[3], csv_file)

-----------------------------------------------------------------------------
(* The CSV files and the invocations of csv_to_sqlite.py in the model *)

\* csv_to_sqlite.py is run at most MaxRuns times
MaxRuns == 2

\* a CSV file as csv.reader parses it: one sequence of fields per line, the
\* headers first; no line at all for an empty file
ParsedCsv(lines) == [exists |-> TRUE, lines |-> lines]

AbsentCsv == [exists |-> FALSE, lines |-> <<>>]

Header_zip == <<122, 105, 112>>
Header_county_code == <<99, 111, 117, 110, 116, 121, 95, 99, 111, 100, 101>>

Space == 32

ZipHeaders == <<Header_zip, Header_county_code>>
\* "'zip'" and " ": cleaned to zip and column_1
QuotedHeaders == <<<<SingleQuote>> \o Header_zip \o <<SingleQuote>>, <<Space>>>>
HealthHeaders == <<Header_County_code, Header_Measure_name>>
RepeatedHeaders == <<Header_zip, Header_zip>>
BlankHeaderLine == <<>>

Cell00501 == <<48, 48, 53, 48, 49>>                    \* "00501"
Cell36103 == <<51, 54, 49, 48, 51>>                    \* "36103"
Cell25017 == <<50, 53, 48, 49, 55>>                    \* "25017"
CellInnerQuotes == <<84, DoubleQuote, 113, DoubleQuote>> \* T"q"

RowHoltsville  == <<Cell00501, Cell36103>>
RowQuotedCells == <<ZipQuoted, <<Space>> \o Cell25017 \o <<Space>>>>
RowShort       == <<Zip02138>>
RowLong        == <<Cell00501, Cell36103, <<78, 89>>>>
RowOfSpaces    == <<<<Space>>, <<>>>>
EmptyLine      == <<>>
RowQuoteOnly   == <<<<SingleQuote>>, <<>>>>
RowInnerQuotes == <<Zip02138, CellInnerQuotes>>

DataRowLists ==
    { <<>>,
      <<RowHoltsville, RowQuotedCells>>,
      <<EmptyLine, RowShort, RowOfSpaces, RowLong>>,
      <<RowQuoteOnly, RowInnerQuotes>> }

CsvContents ==
    { ParsedCsv(<<headers>> \o data_rows) :
        headers \in {ZipHeaders, QuotedHeaders, HealthHeaders},
        data_rows \in DataRowLists }
    \cup { ParsedCsv(<<RepeatedHeaders, RowHoltsville>>),
           ParsedCsv(<<BlankHeaderLine, RowHoltsville>>),
           ParsedCsv(<<>>),
           AbsentCsv }

CsvPaths ==
    { Path("", "zip_county", ".csv"),
      Path("data/", "county_health_rankings", ".csv"),
      Path("", "cities", ".CSV"),
      Path("", "notes", ".txt") }

TableNames == {get_table_name(csv_path) : csv_path \in CsvPaths}

\* sys.argv and the file at the path it names, if it names one
Invocations ==
    { <<<<"csv_to_sqlite.py", "data.db", csv_path>>, csv_file>> :
        csv_path \in CsvPaths, csv_file \in CsvContents }
    \cup { <<<<"csv_to_sqlite.py">>, AbsentCsv>>,
           <<<<"csv_to_sqlite.py", "data.db">>, AbsentCsv>> }
    \cup { <<<<"csv_to_sqlite.py", "data.db", csv_path, csv_path>>,
             ParsedCsv(<<ZipHeaders, RowHoltsville>>)>> :
             csv_path \in {Path("", "zip_county", ".csv")} }

NoDatabase == [exists |-> FALSE, tables |-> [t \in TableNames |-> NoSqlTable]]

\* a database loaded earlier: zip_county and cities have rows
LoadedDatabase ==
    [exists |-> TRUE,
     tables |-> [t \in TableNames |->
                   IF t = "zip_county"
                   THEN SqlTable(columns_def(ZipHeaders), <<<<Zip02138, Cell25017>>>>)
                   ELSE IF t = "cities"
                   THEN SqlTable(columns_def(<<Header_zip>>), <<<<Cell00501>>>>)
                   ELSE NoSqlTable]]

\* a run of csv_to_sqlite.py: its arguments, the file they name, its exit
ConverterRun(argv, csv_file, returncode, stderr) ==
    [argv |-> argv, csv_file |-> csv_file, returncode |-> returncode,
     stderr |-> stderr]

NoRun == ConverterRun(<<>>, AbsentCsv, 0, "")

-----------------------------------------------------------------------------
(* The state machine *)

NoRequest == Scalar("none", "", 0)

Route(method, path) == [method |-> method, path |-> path]

NoRoute == Route("", "")

FileSystem(tmp, bundled) ==
    [path \in {possible_paths[i] : i \in 1..Len(possible_paths)} |->
        IF path = "/tmp/data.db" THEN tmp
        ELSE IF path = "api/data.db" THEN bundled
        ELSE NoFile]

\* a completed exchange: the request, the file system it was handled
\* against and the response it got
Exchange(req, rt, store, resp) ==
    [request |-> req, route |-> rt, store |-> store, response |-> resp]

NoExchange == Exchange(NoRequest, NoRoute, FileSystem(NoFile, NoFile), Pass)

\* A lookup in the course of create_database_from_csv(): the payload of its
\* request, the file system it found, the table its csv_to_sqlite.py run is
\* converting, how far that run is, and the response once there is one.
Build(pc, req, store, table, resp) ==
    [pc |-> pc, request |-> req, store |-> store, table |-> table,
     response |-> resp]

NoBuild == Build("idle", NoRequest, FileSystem(NoFile, NoFile), "", Pass)

\* Before the first request: a database may be in the temporary directory,
\* one may be bundled beside the script, and the CSV sources may be there.
Init ==
    /\ \E tmp \in Databases \cup {NoFile},
          bundled \in {NoFile, Database(Table(ZipRowsB), Table(HealthRowsA))} :
          files = FileSystem(tmp, bundled)
    /\ csv \in SourceSets
    /\ request = NoRequest
    /\ response = Pass
    /\ trace = <<>>
    /\ filesBefore = files
    /\ route = NoRoute
    /\ earlier = NoExchange
    /\ build = NoBuild
    /\ database = NoDatabase
    /\ databaseBefore = NoDatabase
    /\ run = NoRun
    /\ runs = 0

\* variant: measure_name kept in a global that the handler of the previous
\* request had set
PostCountyData_stale_measure(p) ==
    LET stale == IF earlier = NoExchange THEN p
                 ELSE [p EXCEPT !.measure_name = earlier.request.measure_name]
        out   == county_data(stale, files, csv)
    IN  /\ request = NoRequest
        /\ request' = p
        /\ response' = out.response
        /\ trace' = out.trace
        /\ files' = out.files
        /\ filesBefore' = files
        /\ route' = Route("POST", "/county_data")
        /\ UNCHANGED <<csv, earlier, build, converterVars>>

\* POST /county_data with payload p, handled from the arrival of the request
\* to the return of its response
PostCountyData(p) ==
    LET out == county_data(p, files, csv)
    IN  /\ request = NoRequest
        /\ request' = p
        /\ response' = out.response
        /\ trace' = out.trace
        /\ files' = out.files
        /\ filesBefore' = files
        /\ route' = Route("POST", "/county_data")
        /\ UNCHANGED <<csv, earlier, build, converterVars>>

\* any other request: Flask answers it through root() or an error handler,
\* none of which reads the body or the store
OtherRequest(method, path, p) ==
    /\ request = NoRequest
    /\ dispatch_request(method, path) # "county_data"
    /\ request' = p
    /\ response' = view_response(dispatch_request(method, path))
    /\ trace' = <<>>
    /\ filesBefore' = files
    /\ route' = Route(method, path)
    /\ UNCHANGED <<files, csv, earlier, build, converterVars>>

\* The response has been sent: the request context is torn down, the store
\* stays as the request left it.
SendResponse ==
    /\ request # NoRequest
    /\ request' = NoRequest
    /\ response' = Pass
    /\ trace' = <<>>
    /\ filesBefore' = files
    /\ route' = NoRoute
    /\ UNCHANGED <<files, csv, earlier, build, converterVars>>

Next ==
    \/ \E p \in Payloads : PostCountyData(p)
    \/ \E method \in Methods, path \in Paths, p \in UnreadPayloads :
          OtherRequest(method, path, p)
    \/ SendResponse

Spec == Init /\ [][Next]_vars

-----------------------------------------------------------------------------
(* Repeated requests: the state machine with a memory of one exchange *)

\* the requests that are repeated
RepeatPayloads ==
    NormalRequests
    \cup { Scalar("null", "", 0),
           Object(JVal("str", "teapot", 0), Absent(<<>>), Absent("")),
           Object(Absent(""), JVal("str", ZipFullwidth, 0), JVal("str", "Unemployment", 0)),
           Object(Absent(""), JVal("str", Zip02138, 0), JVal("str", "adult obesity", 0)) }

\* the response has been sent and the exchange is kept in place of the one
\* kept before
SendResponseRemembered ==
    /\ request # NoRequest
    /\ earlier' = Exchange(request, route, filesBefore, response)
    /\ request' = NoRequest
    /\ response' = Pass
    /\ trace' = <<>>
    /\ filesBefore' = files
    /\ route' = NoRoute
    /\ UNCHANGED <<files, csv, build, converterVars>>

NextRepeat ==
    \/ \E p \in RepeatPayloads : PostCountyData(p)
    \/ \E path \in Paths : OtherRequest("GET", path, Scalar("null", "", 0))
    \/ SendResponse
    \/ SendResponseRemembered

SpecRepeat == Init /\ [][NextRepeat]_vars

-----------------------------------------------------------------------------
(* Every measure name: the state machine on requests of a well-formed zip   *)
(* with each recognized name and each name in another letter case           *)

MeasurePayloads ==
    { Object(Absent(""), JVal("str", z, 0), JVal("str", m, 0)) :
        z \in {Zip02138, Zip00000},
        m \in VALID_MEASURES \cup {pair[1] : pair \in CasePairs} }

NextMeasures ==
    \/ \E p \in MeasurePayloads : PostCountyData(p)
    \/ SendResponse

SpecMeasures == Init /\ [][NextMeasures]_vars

-----------------------------------------------------------------------------
(* Concurrent requests: one lookup creates the database step by step while   *)
(* other requests are handled                                                *)

\* the requests handled concurrently
ConcurrentPayloads == RepeatPayloads

\* what the building lookup leaves alone
NotOfBuild ==
    <<csv, request, response, trace, filesBefore, route, earlier, converterVars>>

\* index.py lines 180-182 and 124-133: a lookup passed the validation,
\* found no database at any path and found the script and both CSV files:
\* it starts converting
StartBuild(p) ==
    /\ build.pc = "idle"
    /\ validation(p) = Pass
    /\ ~files[get_database_path(files)].exists
    /\ csv.script
    /\ csv.zip_county.exists
    /\ csv.county_health_rankings.exists
    /\ build' = Build("run", p, files, "zip_county", Pass)
    /\ UNCHANGED files
    /\ UNCHANGED NotOfBuild

\* csv_to_sqlite.py lines 71-79 and index.py lines 140-153: the CSV file is
\* empty, the run exits with status 1 and the lookup raises FileNotFoundError
ConversionFails ==
    /\ build.pc = "run"
    /\ csv[build.table].empty
    /\ build' = [build EXCEPT !.pc = "done", !.response = DatabaseNotFound]
    /\ UNCHANGED files
    /\ UNCHANGED NotOfBuild

\* csv_to_sqlite.py line 105: sqlite3.connect creates the file if need be
ConnectDatabase ==
    /\ build.pc = "run"
    /\ ~csv[build.table].empty
    /\ files' = [files EXCEPT !["/tmp/data.db"].exists = TRUE]
    /\ build' = [build EXCEPT !.pc = "connected"]
    /\ UNCHANGED NotOfBuild

\* csv_to_sqlite.py line 120: DROP TABLE IF EXISTS, committed at once
DropTable ==
    /\ build.pc = "connected"
    /\ files' = [files EXCEPT !["/tmp/data.db"][build.table] = NoTable]
    /\ build' = [build EXCEPT !.pc = "dropped"]
    /\ UNCHANGED NotOfBuild

\* csv_to_sqlite.py lines 123-124: CREATE TABLE, committed at once
CreateTable ==
    /\ build.pc = "dropped"
    /\ files' = [files EXCEPT !["/tmp/data.db"][build.table] = Table(<<>>)]
    /\ build' = [build EXCEPT !.pc = "created"]
    /\ UNCHANGED NotOfBuild

\* csv_to_sqlite.py lines 132-170: the rows are inserted in one transaction
\* and committed; the run for the records table follows the run for the
\* zip table (index.py lines 135-153)
CommitRows ==
    /\ build.pc = "created"
    /\ files' = [files EXCEPT !["/tmp/data.db"][build.table] =
                     Table(insert_rows(build.table, csv[build.table].rows, 1))]
    /\ build' = IF build.table = "zip_county"
                THEN [build EXCEPT !.pc = "run", !.table = "county_health_rankings"]
                ELSE [build EXCEPT !.pc = "built"]
    /\ UNCHANGED NotOfBuild

\* index.py lines 155-161 and 192-328: the database made, the lookup runs
\* its queries on it and its response is made
FinishLookup ==
    LET db_path == get_database_path(build.store)
        q == IF ~files[db_path].exists
             THEN [raised |-> "FileNotFoundError", data |-> <<>>]
             ELSE run_queries(files[db_path], build.request.zip.s,
                              build.request.measure_name.s)
    IN  /\ build.pc = "built"
        /\ build' = [build EXCEPT !.pc = "done", !.response = respond(q)]
        /\ UNCHANGED files
        /\ UNCHANGED NotOfBuild

\* the response of the building lookup has been sent
ReturnLookup ==
    /\ build.pc = "done"
    /\ build' = NoBuild
    /\ UNCHANGED files
    /\ UNCHANGED NotOfBuild

NextConcurrent ==
    \/ \E p \in ConcurrentPayloads : PostCountyData(p)
    \/ SendResponse
    \/ \E p \in ConcurrentPayloads : StartBuild(p)
    \/ ConversionFails
    \/ ConnectDatabase
    \/ DropTable
    \/ CreateTable
    \/ CommitRows
    \/ FinishLookup
    \/ ReturnLookup

SpecConcurrent == Init /\ [][NextConcurrent]_vars

-----------------------------------------------------------------------------
(* The converter: csv_to_sqlite.py run on one database, run after run *)

InitConverter ==
    /\ files = FileSystem(NoFile, NoFile)
    /\ csv = Sources(FALSE, NoCsvFile, NoCsvFile)
    /\ request = NoRequest
    /\ response = Pass
    /\ trace = <<>>
    /\ filesBefore = files
    /\ route = NoRoute
    /\ earlier = NoExchange
    /\ build = NoBuild
    /\ database \in {NoDatabase, LoadedDatabase}
    /\ databaseBefore = database
    /\ run = NoRun
    /\ runs = 0

\* python3 csv_to_sqlite.py argv[2] argv[3] ..., from its start to its exit
RunCsvToSqlite(argv, csv_file) ==
    LET out == main(argv, csv_file, database)
    IN  /\ runs < MaxRuns
        /\ database' = out.db
        /\ databaseBefore' = database
        /\ run' = ConverterRun(argv, csv_file, out.returncode, out.stderr)
        /\ runs' = runs + 1
        /\ UNCHANGED serverVars

NextConverter ==
    \E invocation \in Invocations :
        RunCsvToSqlite(invocation[1], invocation[2])

SpecConverter == InitConverter /\ [][NextConverter]_vars

-----------------------------------------------------------------------------
(* Vocabulary of the properties *)

\* a request has been answered and its response is the one in `response'
Answered == request # NoRequest

\* the request answered is a POST /county_data: county_data() handled it
Handled == Answered /\ route = Route("POST", "/county_data")

\* the response is the error object {"error": message, "status": code} with
\* HTTP status code
Replies(code, message) ==
    /\ response.kind = "object"
    /\ response.code = code
    /\ response.body = [error |-> message, status |-> code]

\* the payload is a JSON object whose coffee is exactly "teapot"
HasTeapot ==
    request.t = "obj" /\ request.coffee.t = "str" /\ request.coffee.s = "teapot"

\* v is a string matching ^[0-9]{5}$
MatchesZipPattern(v) ==
    /\ v.t = "str"
    /\ Len(v.s) = 5
    /\ \A i \in 1..Len(v.s) : v.s[i] \in 48..57

\* v is missing or empty: absent, null, or a false value ("", 0, [])
MissingOrEmpty(v) ==
    \/ v.t \in {"absent", "null"}
    \/ v.t = "str" /\ Len(v.s) = 0
    \/ v.t \in {"num", "list"} /\ v.n = 0

\* the same for a value whose strings are not inspected by character
MissingOrEmptyName(v) ==
    \/ v.t \in {"absent", "null"}
    \/ v.t = "str" /\ v.s = ""
    \/ v.t \in {"num", "list"} /\ v.n = 0

\* v is one of the twelve recognized measure names
RecognizedMeasure(v) == v.t = "str" /\ v.s \in VALID_MEASURES

\* the response is one of the validation outcomes
ValidationOutcome ==
    \/ Replies(418, "I'm a teapot")
    \/ Replies(400, "Request must contain JSON data")
    \/ Replies(400, "Missing required parameter: zip")
    \/ Replies(400, "Missing required parameter: measure_name")
    \/ Replies(404, "Invalid zip code format. Must be 5 digits.")
    \/ Replies(404, "Invalid measure_name")

\* nothing of the store was touched while the request was handled
NoStoreAccess == trace = <<>> /\ files = filesBefore

-----------------------------------------------------------------------------
(* C1 *)

\* C1: every payload that is a JSON object with coffee = "teapot" is answered
\* 418 {"error": "I'm a teapot", "status": 418}, whatever zip and
\* measure_name are (present or missing, valid or invalid).
C1_TeapotAlways418 ==
    (Handled /\ HasTeapot) => Replies(418, "I'm a teapot")

\* a teapot request without zip and with a measure_name that is not even a
\* string has been answered
C1_Witness ==
    /\ Handled /\ HasTeapot
    /\ request.zip.t = "absent"
    /\ request.measure_name.t = "list"
    /\ response.code = 418

-----------------------------------------------------------------------------
(* C2 *)

\* C2: a request that ends in a validation outcome (teapot, malformed
\* request, missing parameter, invalid zip format, unknown measure) touched
\* nothing of the store: no path resolved, no connection, no query, no file
\* created.
C2_ValidationBeforeStore ==
    (Handled /\ ValidationOutcome) => NoStoreAccess

\* an unknown measure was rejected while the database was absent and the CSV
\* sources were there to build it from
C2_Witness ==
    /\ Handled
    /\ Replies(404, "Invalid measure_name")
    /\ MatchesZipPattern(request.zip)
    /\ \A i \in 1..Len(possible_paths) : ~filesBefore[possible_paths[i]].exists
    /\ csv.script /\ csv.zip_county.exists /\ csv.county_health_rankings.exists
    /\ trace = <<>>

-----------------------------------------------------------------------------
(* C3 *)

\* C3 (as claimed): for every zip that does not match ^[0-9]{5}$ (too short,
\* too long, a character other than 0-9, empty, or not a string) the result
\* is InvalidZipFormat or MissingParameter and the store is never accessed
\* (the 400 of the empty object, without any field, is let through here).
\* The code accepts any five characters str.isdigit() accepts and calls
\* .isdigit() on whatever zip is.
C3_NonMatchingZipRejected ==
    (Handled /\ request.t = "obj" /\ ~HasTeapot /\ ~MatchesZipPattern(request.zip))
    => /\ \/ Replies(404, "Invalid zip code format. Must be 5 digits.")
          \/ Replies(400, "Missing required parameter: zip")
          \/ Replies(400, "Missing required parameter: measure_name")
          \/ Replies(400, "Request must contain JSON data")
       /\ NoStoreAccess

-----------------------------------------------------------------------------
(* The store a lookup is served from *)

\* the request passed the validator as the specification describes it: an
\* object without teapot, a zip matching ^[0-9]{5}$, one of the twelve measures
Validated ==
    /\ Handled /\ request.t = "obj" /\ ~HasTeapot
    /\ MatchesZipPattern(request.zip)
    /\ RecognizedMeasure(request.measure_name)

\* the database at the path the lookup opens, before and after the request
StoreBefore == filesBefore[get_database_path(filesBefore)]
StoreAfter  == files[get_database_path(files)]

Complete(db) ==
    db.exists /\ db.zip_county.exists /\ db.county_health_rankings.exists

\* The store the lookup reads: the database present when the request
\* arrived or, when there was none, the one built completely from the CSV
\* sources during the request (a conversion that fails leaves its table
\* missing); NoFile when there is neither.
Served ==
    IF StoreBefore.exists THEN StoreBefore
    ELSE IF Complete(StoreAfter) THEN StoreAfter
    ELSE NoFile

ZipCounty == Served.zip_county.rows
CountyHealthRecords == Served.county_health_rankings.rows

ZipPresent(z) == \E i \in 1..Len(ZipCounty) : ZipCounty[i].zip = z

\* the county code of the first ZipCounty row for z
CountyOf(z) ==
    LET first == CHOOSE i \in 1..Len(ZipCounty) :
                    /\ ZipCounty[i].zip = z
                    /\ \A j \in 1..(i - 1) : ZipCounty[j].zip # z
    IN  ZipCounty[first].county_code

Matches(row, c, m) == row.fipscode = c /\ row.Measure_name = m

\* the records of county c for measure m, in storage order
MatchingRecords(c, m) ==
    SelectSeq(CountyHealthRecords, LAMBDA row : Matches(row, c, m))

\* the result field that carries each column
ColumnOfField ==
    [ state |-> "State", county |-> "County", state_code |-> "State_code",
      county_code |-> "County_code", year_span |-> "Year_span",
      measure_name |-> "Measure_name", measure_id |-> "Measure_id",
      numerator |-> "Numerator", denominator |-> "Denominator",
      raw_value |-> "Raw_value",
      confidence_interval_lower_bound |-> "Confidence_Interval_Lower_Bound",
      confidence_interval_upper_bound |-> "Confidence_Interval_Upper_Bound",
      data_release_year |-> "Data_Release_Year", fipscode |-> "fipscode" ]

SchemaFields == DOMAIN ColumnOfField

-----------------------------------------------------------------------------
(* C4 *)

-----------------------------------------------------------------------------
(* C5 *)

\* C5 (as claimed): with a well-formed zip, every measure_name given that is
\* not one of the twelve names gets 404 {"error": "Invalid measure_name"}.
\* A measure_name that is a JSON array makes the membership test raise.
C5_UnknownMeasureRejected ==
    ( /\ Handled /\ request.t = "obj" /\ ~HasTeapot
      /\ MatchesZipPattern(request.zip)
      /\ ~MissingOrEmptyName(request.measure_name)
      /\ ~RecognizedMeasure(request.measure_name) )
    => Replies(404, "Invalid measure_name")

-----------------------------------------------------------------------------
(* C6 *)

\* C6 (as claimed): for every JSON object without coffee = teapot, a missing
\* or empty zip gets 400 "Missing required parameter: zip", and a zip that is
\* there with a missing or empty measure_name gets 400 "Missing required
\* parameter: measure_name".
C6_MissingParameterNamed ==
    (Handled /\ request.t = "obj" /\ ~HasTeapot)
    => /\ MissingOrEmpty(request.zip)
            => Replies(400, "Missing required parameter: zip")
       /\ (~MissingOrEmpty(request.zip) /\ MissingOrEmptyName(request.measure_name))
            => Replies(400, "Missing required parameter: measure_name")

\* the object has at least one key
NonEmptyObject ==
    /\ request.t = "obj"
    /\ \/ request.coffee.t # "absent"
       \/ request.zip.t # "absent"
       \/ request.measure_name.t # "absent"

\* C6 (amended): the same for every JSON object that has at least one key;
\* the empty object {} gets 400 "Request must contain JSON data".
C6_MissingParameterNamedNonEmpty ==
    /\ (Handled /\ NonEmptyObject /\ ~HasTeapot)
       => /\ MissingOrEmpty(request.zip)
               => Replies(400, "Missing required parameter: zip")
          /\ (~MissingOrEmpty(request.zip) /\ MissingOrEmptyName(request.measure_name))
               => Replies(400, "Missing required parameter: measure_name")
    /\ (Handled /\ request.t = "obj" /\ ~NonEmptyObject)
       => Replies(400, "Request must contain JSON data")

\* a request with neither field (only another key) was told that zip is
\* missing, not measure_name
C6_Witness ==
    /\ Handled /\ NonEmptyObject /\ ~HasTeapot
    /\ request.zip.t = "absent"
    /\ request.measure_name.t = "absent"
    /\ Replies(400, "Missing required parameter: zip")

-----------------------------------------------------------------------------
(* C7 *)

\* C7 (as claimed): a body that is missing, is not JSON, or is JSON but not
\* an object gets 400 {"error": "Request must contain JSON data"}, never a
\* 500.  A body Flask refuses, and a true value that is not an object, end in
\* the handler's catch-all.
C7_MalformedRequest400 ==
    (Handled /\ request.t # "obj")
    => Replies(400, "Request must contain JSON data")

-----------------------------------------------------------------------------
(* C8 *)

\* the result record the schema prescribes for a stored row
RecordOf(row) == [f \in SchemaFields |-> row[ColumnOfField[f]]]

\* the validated zip resolves to a county that has records for the measure
HasMatchingRecords ==
    /\ Validated
    /\ Complete(Served)
    /\ ZipPresent(request.zip.s)
    /\ MatchingRecords(CountyOf(request.zip.s), request.measure_name.s) # <<>>

\* C8: when a validated zip resolves to county code c and at least one
\* record matches, the response is 200 and its body is exactly the rows with
\* fipscode = c and the requested measure_name, all of them and only them, in
\* storage order, each with exactly the 14 schema fields.
C8_ExactlyTheMatchingRecords ==
    HasMatchingRecords
    => LET c        == CountyOf(request.zip.s)
           expected == MatchingRecords(c, request.measure_name.s)
       IN  /\ response.code = 200
           /\ response.kind = "array"
           /\ Len(response.body) = Len(expected)
           /\ \A k \in 1..Len(expected) :
                /\ response.body[k] = RecordOf(expected[k])
                /\ DOMAIN response.body[k] = SchemaFields
                /\ response.body[k].measure_name = request.measure_name.s
                /\ response.body[k].fipscode = c

\* two records of one county were returned from a table that also holds
\* records of another county and of other measures
C8_Witness ==
    /\ HasMatchingRecords
    /\ response.code = 200
    /\ Len(response.body) = 2
    /\ Len(CountyHealthRecords) > 2
    /\ response.body[1].county_code # response.body[1].fipscode

-----------------------------------------------------------------------------
(* C9 *)

\* the lookup of a validated request finds no row: the zip is not in
\* ZipCounty, or its county has no record for the measure
ZipUnknown ==
    Validated /\ Served.zip_county.exists /\ ~ZipPresent(request.zip.s)

NoRecordForMeasure ==
    /\ Validated /\ Complete(Served)
    /\ ZipPresent(request.zip.s)
    /\ MatchingRecords(CountyOf(request.zip.s), request.measure_name.s) = <<>>

\* C9: a validated request whose lookup yields no row, for either cause,
\* gets 404 {"error": "No data found for the given zip code and measure"},
\* and a 200 response never carries an empty array.
C9_EmptyResultIsNotFound ==
    /\ (ZipUnknown \/ NoRecordForMeasure)
       => Replies(404, "No data found for the given zip code and measure")
    /\ (Handled /\ response.code = 200)
       => (response.kind = "array" /\ Len(response.body) > 0)

\* a zip that resolves to a county without records for the measure, in a
\* table that has records for that measure in another county
C9_Witness ==
    /\ NoRecordForMeasure
    /\ \E i \in 1..Len(CountyHealthRecords) :
          CountyHealthRecords[i].Measure_name = request.measure_name.s
    /\ response.code = 404

-----------------------------------------------------------------------------
(* C10 *)

StoreUnavailable ==
    Replies(500, "Database not found") \/ Replies(500, "Database error")

\* no database file at any path when the request arrives
StoreAbsent == ~StoreBefore.exists

QueryFails ==
    /\ StoreBefore.exists
    /\ \/ ~StoreBefore.zip_county.exists
       \/ /\ ZipPresent(request.zip.s)
          /\ ~StoreBefore.county_health_rankings.exists

-----------------------------------------------------------------------------
(* C11 *)

\* C11: every response that is not a 200, whatever the route, the method and
\* the payload of the request, is a JSON object with exactly the two fields
\* error and status, error a message and status equal to the HTTP status
\* code of the response.
C11_ErrorShape ==
    (Answered /\ response.code # 200)
    => /\ response.kind = "object"
       /\ DOMAIN response.body = {"error", "status"}
       /\ response.body.error # ""
       /\ response.body.status = response.code

\* a PUT on /county_data, which Flask refuses with MethodNotAllowed (405),
\* was answered 404 with status 404 in the body
C11_Witness ==
    /\ Answered
    /\ route = Route("PUT", "/county_data")
    /\ response.code = 404
    /\ response.body.status = 404

-----------------------------------------------------------------------------
(* C12 *)

\* the lookup of the request failed at the store: no database could be found
\* or built, or a query failed on the database found
StoreFailure ==
    /\ Handled /\ trace # <<>>
    /\ \/ StoreAbsent /\ ~Complete(StoreAfter)
       \/ QueryFails

\* the texts of the exceptions a lookup can raise
ExceptionTexts ==
    { "Database file not found and could not create: /tmp/data.db",
      "no such table: zip_county",
      "no such table: county_health_rankings" }

\* C12: every failure raised while the store is accessed is answered with
\* one of the fixed messages "Database not found", "Database error" or
\* "Internal server error" (status 500), and no response carries the text of
\* the exception.
C12_StoreFailuresClassified ==
    /\ StoreFailure
       => \/ Replies(500, "Database not found")
          \/ Replies(500, "Database error")
          \/ Replies(500, "Internal server error")
    /\ (Answered /\ response.kind = "object" /\ response.code # 200)
       => response.body.error \notin ExceptionTexts

\* the zip resolved and the records table was missing: SQLite raised "no
\* such table" and the caller was told "Database error"
C12_Witness ==
    /\ StoreFailure
    /\ StoreBefore.zip_county.exists
    /\ ~StoreBefore.county_health_rankings.exists
    /\ trace[Len(trace)] = "close"
    /\ Replies(500, "Database error")

-----------------------------------------------------------------------------
(* C13 *)

\* quote characters, the statement separator and the comment dash of SQL
SqlMetacharacters == {39, 34, 59, 45}

\* v is a string with an SQL metacharacter in it
InjectedZip(v) ==
    v.t = "str" /\ \E i \in 1..Len(v.s) : v.s[i] \in SqlMetacharacters

\* the measure names of the model that carry SQL
InjectedMeasure(v) == v.t = "str" /\ v.s \in {"Adult obesity' OR '1'='1"}

StringOrMissing(v) == v.t \in {"str", "absent", "null"}

\* a POST /county_data of string fields, without teapot, with SQL in zip or
\* in measure_name, has been handled
InjectionAttempt ==
    /\ Handled /\ request.t = "obj" /\ ~HasTeapot
    /\ StringOrMissing(request.zip) /\ StringOrMissing(request.measure_name)
    /\ InjectedZip(request.zip) \/ InjectedMeasure(request.measure_name)

-----------------------------------------------------------------------------
(* C14 *)

\* the request answered repeats the exchange kept (same method, path and
\* body) and was handled against the file system that exchange found
RepeatsEarlier ==
    /\ Answered
    /\ earlier.request = request
    /\ earlier.route = route
    /\ earlier.store = filesBefore

-----------------------------------------------------------------------------
(* C15 *)

DatabasePaths == {possible_paths[i] : i \in 1..Len(possible_paths)}

\* no database file at any of the paths when the request arrived
NoDatabaseAnywhere == \A path \in DatabasePaths : ~filesBefore[path].exists

-----------------------------------------------------------------------------
(* C16 *)

\* how many of the first k operations of the trace are op
RECURSIVE CountOf(_, _)
CountOf(op, k) ==
    IF k = 0 THEN 0
    ELSE CountOf(op, k - 1) + (IF trace[k] = op THEN 1 ELSE 0)

\* the connections open after the first k operations of the trace
OpenConnections(k) == CountOf("connect", k) - CountOf("close", k)

\* the exit paths of the lookup, told by its trace and the response
RowsFound == response.code = 200
EarlyEmptyReturn ==
    /\ trace[Len(trace) - 1] = "zip_query"
    /\ Replies(404, "No data found for the given zip code and measure")
NoRecordsReturn ==
    /\ trace[Len(trace) - 1] = "health_query"
    /\ Replies(404, "No data found for the given zip code and measure")
QueryRaised == Replies(500, "Database error")

\* a connection was opened while the request was handled
Connected == Handled /\ "connect" \in {trace[i] : i \in 1..Len(trace)}

\* C16: when the response of a request is returned, every connection opened
\* while handling it has been closed: on each exit path of the lookup (rows
\* found, zip not found, no records for the measure, a query raising) the
\* connection is closed after the last query, queries run on an open
\* connection only, and no connection is open when no request is handled.
C16_ConnectionsClosed ==
    /\ \A k \in 1..Len(trace) :
          /\ OpenConnections(k) \in {0, 1}
          /\ trace[k] \in {"zip_query", "health_query"} => OpenConnections(k) = 1
    /\ OpenConnections(Len(trace)) = 0
    /\ Connected
       => /\ trace[Len(trace)] = "close"
          /\ RowsFound \/ EarlyEmptyReturn \/ NoRecordsReturn \/ QueryRaised
    /\ ~Answered => trace = <<>>

\* the records query raised on an open connection (the table is missing) and
\* the connection was closed before "Database error" was returned
C16_Witness ==
    /\ Connected
    /\ QueryRaised
    /\ trace[Len(trace) - 1] = "health_query"
    /\ trace[Len(trace)] = "close"
    /\ OpenConnections(Len(trace) - 1) = 1

-----------------------------------------------------------------------------
(* C17 *)

\* a request on /county_data with a method the route does not take; OPTIONS
\* is answered by Flask itself and is not routed to an error
WrongMethodOnCountyData ==
    /\ Answered
    /\ route.path = "/county_data"
    /\ route.method \notin {"POST", "OPTIONS"}

\* C17: a GET on /county_data, and any other method than POST that is routed
\* to an error, is answered with HTTP status 404, never 405, and a JSON
\* object with an error field and status 404.
C17_WrongMethodIs404 ==
    WrongMethodOnCountyData
    => /\ response.code = 404
       /\ response.code # 405
       /\ response.kind = "object"
       /\ "error" \in DOMAIN response.body
       /\ response.body.status = 404

\* GET /county_data was answered 404
C17_Witness ==
    /\ WrongMethodOnCountyData
    /\ route.method = "GET"
    /\ response.code = 404

-----------------------------------------------------------------------------
(* C18 *)

\* a request on a path that no rule has
UnknownPath == Answered /\ route.path \notin {"/", "/county_data", StaticPath}

-----------------------------------------------------------------------------
(* C19 *)

-----------------------------------------------------------------------------
(* C20 *)

\* a POST /county_data has been answered while another lookup was creating
\* the database
AnsweredDuringBuild == Handled /\ build.pc # "idle"

\* the response the request would get if it were handled alone, against the
\* file system and the CSV sources the building lookup found
ResponseAlone == county_data(request, build.store, csv).response

\* the zip is in the reference data: a row of zip_county.csv holds it
ZipInSources(z) ==
    LET rows == insert_rows("zip_county", csv.zip_county.rows, 1)
    IN  \E i \in 1..Len(rows) : rows[i].zip = z

\* C20 (as claimed): a request handled while another request is being
\* handled gets the response it would get if handled alone against the same
\* reference data; in particular, while one request is building the absent
\* store from the CSV sources, a request for a zip that is in the data, and
\* that has records for the measure, gets neither NotFound nor a database
\* error.
C20_ConcurrentAsAlone ==
    AnsweredDuringBuild
    => /\ response = ResponseAlone
       /\ (Validated /\ ZipInSources(request.zip.s) /\ ResponseAlone.code = 200)
          => /\ ~Replies(404, "No data found for the given zip code and measure")
             /\ ~Replies(500, "Database error")

-----------------------------------------------------------------------------
(* C21 *)

\* the twelve recognized measure names, as the specification lists them
TwelveMeasures ==
    { "Violent crime rate", "Unemployment", "Children in poverty",
      "Diabetic screening", "Mammography screening",
      "Preventable hospital stays", "Uninsured",
      "Sexually transmitted infections", "Physical inactivity",
      "Adult obesity", "Premature Death", "Daily fine particulate matter" }

\* s differs from one of the twelve names in letter case only
OtherCaseOfMeasure(s) ==
    /\ s \notin TwelveMeasures
    /\ \E pair \in CasePairs : pair[1] = s /\ pair[2] \in TwelveMeasures

\* a POST /county_data of an object without teapot, with a zip matching
\* ^[0-9]{5}$ and a non-empty string as measure_name
WellFormedZipAndMeasureString ==
    /\ Handled /\ request.t = "obj" /\ ~HasTeapot
    /\ MatchesZipPattern(request.zip)
    /\ request.measure_name.t = "str" /\ request.measure_name.s # ""

\* measure validation let the request through: the lookup was started
MeasureAccepted == trace # <<>>

\* C21: with a well-formed zip, a measure_name is accepted by measure
\* validation if and only if it is exactly one of the twelve names; each of
\* the twelve names is answered neither "Invalid measure_name" nor a 400;
\* every string that differs from the twelve in letter case only is answered
\* 404 "Invalid measure_name".
C21_ExactMeasureNames ==
    WellFormedZipAndMeasureString
    => /\ MeasureAccepted <=> request.measure_name.s \in TwelveMeasures
       /\ request.measure_name.s \in TwelveMeasures
            => /\ ~Replies(404, "Invalid measure_name")
               /\ response.code # 400
       /\ request.measure_name.s \notin TwelveMeasures
            => Replies(404, "Invalid measure_name")
       /\ OtherCaseOfMeasure(request.measure_name.s)
            => /\ Replies(404, "Invalid measure_name")
               /\ NoStoreAccess

\* "Premature death" (a small d) was rejected for a zip that is in the store
C21_Witness ==
    /\ WellFormedZipAndMeasureString
    /\ request.measure_name.s = "Premature death"
    /\ OtherCaseOfMeasure(request.measure_name.s)
    /\ request.zip.s = Zip02138
    /\ Complete(StoreBefore)
    /\ Replies(404, "Invalid measure_name")

-----------------------------------------------------------------------------
(* C22 *)

\* the ZipCounty rows for z, by their position in storage order
RowsOfZip(z) == {i \in 1..Len(ZipCounty) : ZipCounty[i].zip = z}

\* ZipCounty has several rows for the zip of the validated request, and a
\* later one names another county than the first
DuplicateZip ==
    /\ Validated /\ Complete(Served)
    /\ Cardinality(RowsOfZip(request.zip.s)) > 1
    /\ \E i \in RowsOfZip(request.zip.s) :
          ZipCounty[i].county_code # CountyOf(request.zip.s)

\* C22: when ZipCounty holds several rows for the zip, only the first of
\* them in storage order is used: the records returned all carry the
\* county_code of that row as fipscode, none belongs to the county of a later
\* duplicate, and when the first row's county has no record for the measure
\* the answer is NotFound even if a later duplicate's county has some.
C22_FirstMatchOnly ==
    DuplicateZip
    => LET c == CountyOf(request.zip.s)
       IN  /\ response.code = 200
                => /\ \A k \in 1..Len(response.body) : response.body[k].fipscode = c
                   /\ Len(response.body) = Len(MatchingRecords(c, request.measure_name.s))
           /\ MatchingRecords(c, request.measure_name.s) = <<>>
                => Replies(404, "No data found for the given zip code and measure")
           /\ MatchingRecords(c, request.measure_name.s) # <<>>
                => response.code = 200

\* the first row's county has no record for the measure and the county of
\* the later duplicate has: the request was answered NotFound
C22_Witness ==
    /\ DuplicateZip
    /\ MatchingRecords(CountyOf(request.zip.s), request.measure_name.s) = <<>>
    /\ \E i \in RowsOfZip(request.zip.s) :
          MatchingRecords(ZipCounty[i].county_code, request.measure_name.s) # <<>>
    /\ response.code = 404

-----------------------------------------------------------------------------
(* C27 *)

\* The first failing check of a JSON object, in the order teapot, empty
\* payload, missing zip, missing measure_name, zip format, measure
\* membership; "lookup" when all of them pass.
FirstFailingCheck ==
    IF HasTeapot THEN "teapot"
    ELSE IF ~NonEmptyObject THEN "payload"
    ELSE IF MissingOrEmpty(request.zip) THEN "zip"
    ELSE IF MissingOrEmptyName(request.measure_name) THEN "measure_name"
    ELSE IF ~MatchesZipPattern(request.zip) THEN "zip_format"
    ELSE IF ~RecognizedMeasure(request.measure_name) THEN "measure"
    ELSE "lookup"

\* C27 (as claimed): the outcome of a POST /county_data with a JSON object
\* whose zip and measure_name are strings, when they are there, is that of
\* the first failing check in the order teapot, empty payload,
\* missing zip, missing measure_name, zip format, measure membership, store
\* availability, empty result.  Both fields missing names zip; an ill-formed
\* zip with an unknown measure gets InvalidZipFormat; an ill-formed zip with
\* a missing measure_name gets MissingParameter for measure_name.  The code
\* lets five non-ASCII digits pass its zip format check, so that an
\* ill-formed zip is judged by the checks that follow.
C27_FirstFailingCheckDecides ==
    ( /\ Handled /\ request.t = "obj"
      /\ StringOrMissing(request.zip) /\ StringOrMissing(request.measure_name) )
    => CASE FirstFailingCheck = "teapot" -> Replies(418, "I'm a teapot")
         [] FirstFailingCheck = "payload" ->
                Replies(400, "Request must contain JSON data")
         [] FirstFailingCheck = "zip" ->
                Replies(400, "Missing required parameter: zip")
         [] FirstFailingCheck = "measure_name" ->
                Replies(400, "Missing required parameter: measure_name")
         [] FirstFailingCheck = "zip_format" ->
                Replies(404, "Invalid zip code format. Must be 5 digits.")
         [] FirstFailingCheck = "measure" -> Replies(404, "Invalid measure_name")
         [] OTHER ->
                /\ ~ValidationOutcome
                /\ StoreFailure => StoreUnavailable
                /\ (~StoreFailure /\ (ZipUnknown \/ NoRecordForMeasure))
                     => Replies(404, "No data found for the given zip code and measure")
                /\ (~StoreFailure /\ HasMatchingRecords) => response.code = 200

-----------------------------------------------------------------------------
(* C28 *)

\* the number of times op was performed while the request was handled
Performed(op) == CountOf(op, Len(trace))

\* the zip query of the request returned a row: the table it read holds a
\* row of the requested zip
ZipQueryReturnedRow ==
    /\ StoreAfter.zip_county.exists
    /\ request.zip.t = "str"
    /\ \E i \in 1..Len(StoreAfter.zip_county.rows) :
          StoreAfter.zip_county.rows[i].zip = request.zip.s

\* C28: a lookup is two-step and never retried: while a request is handled
\* at most one connection is opened, at most one zip query and at most one
\* record query are run, the record query right after the zip query and only
\* when that query returned a row, and a query that fails is followed by the
\* closing of the connection and the 500 "Database error" response, the
\* failed query being the last one run.
C28_TwoStepNoRetry ==
    Handled
    => /\ Performed("connect") <= 1
       /\ Performed("zip_query") <= 1
       /\ Performed("health_query") <= 1
       /\ \A k \in 1..Len(trace) :
             /\ trace[k] = "zip_query" => k > 1 /\ trace[k - 1] = "connect"
             /\ trace[k] = "health_query"
                => /\ k > 1 /\ trace[k - 1] = "zip_query"
                   /\ ZipQueryReturnedRow
       /\ (Performed("zip_query") = 1 /\ ~ZipQueryReturnedRow)
          => Performed("health_query") = 0
       /\ QueryRaised
          => /\ Len(trace) >= 3
             /\ trace[Len(trace)] = "close"
             /\ trace[Len(trace) - 1] \in {"zip_query", "health_query"}
             /\ Performed(trace[Len(trace) - 1]) = 1

\* the record query failed after the zip query had returned a row: one zip
\* query, one record query, then "Database error"
C28_Witness ==
    /\ Handled
    /\ QueryRaised
    /\ ZipQueryReturnedRow
    /\ Performed("zip_query") = 1
    /\ Performed("health_query") = 1

-----------------------------------------------------------------------------
(* Vocabulary of the properties of csv_to_sqlite.py *)

\* csv_to_sqlite.py has been run; the last run exited with status 0
Ran == runs > 0
Succeeded == Ran /\ run.returncode = 0

\* the last run was given a database name and a CSV path and nothing else
TwoArguments == Len(run.argv) = 3

\* the headers and the data rows of the CSV file of the last run
CsvHeaders == run.csv_file.lines[1]
CsvDataRows == Tail(run.csv_file.lines)

\* the base name of the CSV path of the last run, without its .csv extension
BaseNameWithoutCsv ==
    LET csv_path == run.argv[3]
    IN  IF csv_path.suffix \in {".csv", ".CSV"} THEN csv_path.stem
        ELSE csv_path.stem \o csv_path.suffix

\* the table named after the CSV file of the last run, after and before it
Converted == database.tables[BaseNameWithoutCsv]
ConvertedBefore == databaseBefore.tables[BaseNameWithoutCsv]

\* a data row without a character other than white space
BlankRow(row) ==
    \A k \in 1..Len(row) : \A j \in 1..Len(row[k]) : row[k][j] \in WhitespaceChars

\* the data rows of the CSV file that are not blank, by their index
NonBlankRows == {i \in 1..Len(CsvDataRows) : ~BlankRow(CsvDataRows[i])}

-----------------------------------------------------------------------------
(* C23 *)

\* C23: after a run of csv_to_sqlite.py that exits with status 0 the
\* database exists and holds a table named after the base name of the CSV
\* file without its .csv extension, with one column per header of the CSV,
\* every column of type TEXT, and one row per data row that is not blank
\* (none for a file of headers only).
C23_TablePerCsv ==
    Succeeded
    => /\ TwoArguments
       /\ database.exists
       /\ Converted.exists
       /\ Len(Converted.columns) = Len(CsvHeaders)
       /\ \A k \in 1..Len(Converted.columns) : Converted.columns[k].type = "TEXT"
       /\ Len(Converted.rows) = Cardinality(NonBlankRows)
       /\ CsvDataRows = <<>> => Converted.rows = <<>>

\* cities.CSV, with two blank rows among its four data rows, was converted
\* into a new table cities of two rows
C23_Witness ==
    /\ Succeeded
    /\ BaseNameWithoutCsv = "cities"
    /\ ~ConvertedBefore.exists
    /\ Len(CsvDataRows) = 4
    /\ Cardinality(NonBlankRows) = 2
    /\ Len(Converted.rows) = 2

-----------------------------------------------------------------------------
(* C24 *)

\* the data row of the CSV file that the i-th row of the table was made of
SourceRow(i) ==
    CsvDataRows[CHOOSE n \in NonBlankRows :
                    Cardinality({m \in NonBlankRows : m <= n}) = i]

\* C24: after a run that exits with status 0 every cell of the table is the
\* string csv.reader parsed for it: a row read back has, column by column,
\* exactly the values of its data row in the CSV file.
C24_CellsStoredVerbatim ==
    Succeeded
    => \A i \in 1..Len(Converted.rows) :
          \A k \in 1..Len(Converted.columns) :
             k <= Len(SourceRow(i)) => Converted.rows[i][k] = SourceRow(i)[k]

-----------------------------------------------------------------------------
(* C25 *)

\* the table the last run makes of its CSV file in a database that has no
\* table yet
FreshlyConverted ==
    main(run.argv, run.csv_file, NoDatabase).db.tables[BaseNameWithoutCsv]

\* C25: a run that exits with status 0 on a CSV file whose table already
\* exists replaces the table: afterwards the table is the one the CSV file
\* gives in a database without it, with one row per data row of the CSV
\* that is not blank and no row of the earlier table besides; when the
\* table was already the one this CSV file gives, it is the same afterwards.
C25_TableReplaced ==
    (Succeeded /\ ConvertedBefore.exists)
    => /\ Converted = FreshlyConverted
       /\ Len(Converted.rows) = Cardinality(NonBlankRows)
       /\ ConvertedBefore = FreshlyConverted => Converted = ConvertedBefore

\* the second of two runs found the table its CSV file gives, with rows,
\* and left it as it was
C25_Witness ==
    /\ Succeeded
    /\ runs = 2
    /\ ConvertedBefore.exists
    /\ ConvertedBefore.rows # <<>>
    /\ ConvertedBefore = FreshlyConverted
    /\ Converted = ConvertedBefore

-----------------------------------------------------------------------------
(* C26 *)

\* what the last run printed on stderr
PrintsUsage ==
    run.stderr = "Usage: python3 csv_to_sqlite.py <database_name> <csv_file>"
PrintsNotFound == run.stderr = "Error: CSV file not found"

\* the last run neither created nor modified the database
DatabaseUntouched == database = databaseBefore

\* C26: a run of csv_to_sqlite.py that is not given exactly two arguments
\* exits with status 1 after a Usage message, and a run whose CSV file does
\* not exist exits with status 1 after a "not found" message; neither
\* creates or modifies the database.  A run exits with status 0 only when
\* its table has been created and its rows committed.
C26_ExitStatus ==
    Ran
    => /\ run.returncode \in {0, 1}
       /\ ~TwoArguments
          => /\ run.returncode = 1 /\ PrintsUsage /\ DatabaseUntouched
       /\ (TwoArguments /\ ~run.csv_file.exists)
          => /\ run.returncode = 1 /\ PrintsNotFound /\ DatabaseUntouched
       /\ run.returncode = 0
          => /\ TwoArguments /\ run.csv_file.exists
             /\ database.exists /\ Converted.exists
             /\ Len(Converted.rows) = Cardinality(NonBlankRows)

\* the second run named a CSV file that does not exist and left the
\* database the first run had made
C26_Witness ==
    /\ runs = 2
    /\ TwoArguments /\ ~run.csv_file.exists
    /\ run.returncode = 1 /\ PrintsNotFound
    /\ databaseBefore.exists
    /\ \E t \in TableNames : databaseBefore.tables[t].rows # <<>>
    /\ DatabaseUntouched

-----------------------------------------------------------------------------
(* C29 *)

\* the tables of the database other than the one named after the CSV file
\* of the last run
OtherTables == TableNames \ {BaseNameWithoutCsv}

\* table t holds rows
Loaded(t) == database.tables[t].exists /\ database.tables[t].rows # <<>>

\* C29: a run of csv_to_sqlite.py for one CSV file changes no table but the
\* one named after that file: every other table of the database has the
\* columns and the rows it had before the run, whether the run succeeds or
\* fails; a run that is not given a CSV file changes no table at all.
C29_OtherTablesKept ==
    Ran
    => IF TwoArguments
       THEN \A t \in OtherTables : database.tables[t] = databaseBefore.tables[t]
       ELSE DatabaseUntouched

\* county_health_rankings.csv was loaded into a database created by an
\* earlier run that had loaded zip_county: both tables hold their rows
C29_Witness ==
    /\ runs = 2
    /\ Succeeded
    /\ BaseNameWithoutCsv = "county_health_rankings"
    /\ ~ConvertedBefore.exists
    /\ Loaded("county_health_rankings")
    /\ Loaded("zip_county")
    /\ ~databaseBefore.tables["cities"].exists
    /\ database.tables["zip_county"] = databaseBefore.tables["zip_county"]

-----------------------------------------------------------------------------
(* C30 *)

\* the values a data row is inserted with: its cells as the converter
\* stores them, on the right as many empty strings as the row is short of
\* the headers, nothing beyond the last header
ValuesOf(row) ==
    [k \in 1..Len(CsvHeaders) |->
        IF k <= Len(row) THEN strip(row[k], QuoteChars) ELSE <<>>]

\* C30: after a run that exits with status 0 every row of the table has as
\* many values as the CSV file has headers; the rows are those of the data
\* rows that are not blank, in the order of the CSV file, a short row
\* padded on the right with empty strings, a long one cut to the number of
\* headers; a blank row gives no row of the table.
C30_RowsFitHeaders ==
    Succeeded
    => /\ Len(Converted.rows) = Cardinality(NonBlankRows)
       /\ \A i \in 1..Len(Converted.rows) :
             /\ Len(Converted.rows[i]) = Len(CsvHeaders)
             /\ Converted.rows[i] = ValuesOf(SourceRow(i))

\* a file whose data rows are an empty line, a short row, a row of spaces
\* and a long row gave a table of two rows of two values: the short row
\* padded, then the long row cut
C30_Witness ==
    /\ Succeeded
    /\ CsvDataRows = <<EmptyLine, RowShort, RowOfSpaces, RowLong>>
    /\ Len(CsvHeaders) = 2
    /\ Converted.rows = << <<Zip02138, <<>>>>, <<Cell00501, Cell36103>> >>

=============================================================================
